---- MODULE Spec2Model ----
(***************************************************************************)
(* A model of darkmode-qa-test.py: the DarkModeQATest session (its issue    *)
(* and screenshot logs and the report it renders) and the main routine      *)
(* (directory creation, the printed instructions, the JSON configuration    *)
(* snapshot).                                                               *)
(*                                                                          *)
(* Strings stay strings.  The report is the list `report` of the code       *)
(* before the final "\n".join: one record per appended line, holding the    *)
(* line's template (`line`) and the values interpolated into it.  Integer   *)
(* values are held in fields named n / of, text values in the other         *)
(* fields.  Times are points of a discrete clock.                           *)
(***************************************************************************)
EXTENDS Naturals, Sequences, FiniteSets, Bags, TLC

VARIABLES
    test,           \* "unbound" | "session": whether a DarkModeQATest object exists
    issues,         \* self.issues
    screenshots,    \* self.screenshots
    pages_tested,   \* self.pages_tested
    start_time,     \* self.start_time
    now,            \* the wall clock read by datetime.now()
    ret,            \* the value returned by the most recent method call
    issueCalls,     \* history: the arguments of the log_issue calls, in call order
    shotCalls,      \* history: the arguments of the log_screenshot calls, in call order
    pc,             \* main: the statement about to run
    fs,             \* the file system: path -> entry
    stdout,         \* main: what has been printed
    raised,         \* main: the exception that ended the run, or "none"
    fault,          \* environment: the system call of this run that fails
    syscalls,       \* history: file-system calls made by this run of main
    runs,           \* number of runs of main started
    fsAtStart,      \* history: the file system when this run of main started
    fsAfterFirst    \* history: the file system left by the first completed run

sessionVars == <<test, issues, screenshots, pages_tested, start_time>>
mainVars == <<pc, fs, stdout, raised, fault, syscalls, runs, fsAtStart, fsAfterFirst>>
vars == <<test, issues, screenshots, pages_tested, start_time, now, ret,
          issueCalls, shotCalls, pc, fs, stdout, raised, fault, syscalls, runs,
          fsAtStart, fsAfterFirst>>

(***************************************************************************)
(* Bounds of the model.                                                     *)
(***************************************************************************)
MaxRecords == 3     \* log records (issues plus screenshots) in one session
MaxClock == 1       \* clock ticks
MaxRuns == 2        \* runs of main

(***************************************************************************)
(* Module constants of the program.                                         *)
(***************************************************************************)
TIMESTAMP == "2026-01-31"
SESSION == "darkmode-qa"

PROJECT_ROOT == <<"C:", "Users", "NewAdmin", "Desktop", "PROJECTS", "myBrain">>
REPORT_DIR == PROJECT_ROOT \o <<".claude", "reports">>
SCREENSHOT_DIR == PROJECT_ROOT \o <<".claude", "design", "screenshots", "qa", "darkmode">>

DESIGN_SYSTEM ==
    [text |->
        [primary |-> [value |-> "#E5E5E5", contrast |-> "12.6:1", min_required |-> "4.5:1"],
         secondary |-> [value |-> "#A0A0A0", contrast |-> "6.3:1", min_required |-> "4.5:1"],
         tertiary |-> [value |-> "#B0B0B0", contrast |-> "7:1", min_required |-> "4.5:1"]],
     backgrounds |->
        [base |-> "#121212", primary |-> "#121212", secondary |-> "#1A1A1A",
         surface |-> "#1E1E1E", tertiary |-> "#242424"],
     borders |-> [separator |-> "#2A2A2A", default |-> "#383838"],
     accents |-> [blue |-> "#007AFF", green |-> "#34C759", orange |-> "#FF9500",
                  red |-> "#FF3B30"]]

\* The insertion order of the dictionaries of DESIGN_SYSTEM that the report iterates.
TextKeys == <<"primary", "secondary", "tertiary">>
BackgroundKeys == <<"base", "primary", "secondary", "surface", "tertiary">>
AccentKeys == <<"blue", "green", "orange", "red">>

PAGES_TO_TEST ==
    << <<"Dashboard", "/">>, <<"Tasks", "/tasks">>, <<"Notes", "/notes">>,
       <<"Projects", "/projects">>, <<"Calendar", "/calendar">>,
       <<"Settings", "/settings">>, <<"Profile", "/profile">>,
       <<"Inbox", "/inbox">>, <<"Today", "/today">> >>

(***************************************************************************)
(* The arguments the callers pass.  Severities include values outside the   *)
(* three the report knows; pages include one that is no page of             *)
(* PAGES_TO_TEST.                                                           *)
(***************************************************************************)
IssueInputs ==
    { [page |-> "Tasks", component |-> "header", issue |-> "low contrast",
       severity |-> "CRITICAL", current_colors |-> "#777777", expected_colors |-> "#E5E5E5"],
      [page |-> "Dashboard", component |-> "card", issue |-> "wrong background",
       severity |-> "SERIOUS", current_colors |-> "#000000", expected_colors |-> "#1A1A1A"],
      [page |-> "Tasks", component |-> "button", issue |-> "border missing",
       severity |-> "MINOR", current_colors |-> "#121212", expected_colors |-> "#383838"],
      [page |-> "Dashboard", component |-> "header", issue |-> "low contrast",
       severity |-> "MINOR", current_colors |-> "#383838", expected_colors |-> "#A0A0A0"],
      [page |-> "Today", component |-> "card", issue |-> "wrong background",
       severity |-> "critical", current_colors |-> "#FFFFFF", expected_colors |-> "#1E1E1E"],
      [page |-> "Modals", component |-> "tooltip", issue |-> "low contrast",
       severity |-> "INFO", current_colors |-> "#A0A0A0", expected_colors |-> "#E5E5E5"] }

ShotInputs ==
    { [page |-> "Tasks", component |-> "header", filename |-> "tasks-header.png"],
      [page |-> "Tasks", component |-> "button", filename |-> "tasks-button.png"],
      [page |-> "Dashboard", component |-> "card", filename |-> "dashboard-card.png"],
      [page |-> "Today", component |-> "header", filename |-> "today-header.png"] }

NoValue == "None"

(***************************************************************************)
(* DarkModeQATest.__init__                                                  *)
(***************************************************************************)
SessionInit ==
    /\ test' = "session"
    /\ issues' = <<>>
    /\ screenshots' = <<>>
    /\ pages_tested' = 0
    /\ start_time' = now

(***************************************************************************)
(* DarkModeQATest.log_issue / log_screenshot: the list after the append.    *)
(***************************************************************************)
\* a faulty variant (sensitivity of C1): the record is put at the front
InsertIssueFirst(list, page, component, issue, severity, current_colors, expected_colors, t) ==
    <<[page |-> page, component |-> component, issue |-> issue,
       severity |-> severity, current_colors |-> current_colors,
       expected_colors |-> expected_colors, timestamp |-> t]>> \o list

AppendIssue(list, page, component, issue, severity, current_colors, expected_colors, t) ==
    Append(list, [page |-> page, component |-> component, issue |-> issue,
                  severity |-> severity, current_colors |-> current_colors,
                  expected_colors |-> expected_colors, timestamp |-> t])

AppendScreenshot(list, page, component, filename, t) ==
    Append(list, [page |-> page, component |-> component, filename |-> filename,
                  timestamp |-> t])

(***************************************************************************)
(* generate_report, lines 98-106: the three severity counts.                *)
(***************************************************************************)
\* a faulty variant (sensitivity of C8): the comparison ignores case
CountSeverityAnyCase(list, name) ==
    Len(SelectSeq(list, LAMBDA i :
            \/ i.severity = name
            \/ (name = "CRITICAL" /\ i.severity = "critical")
            \/ (name = "SERIOUS" /\ i.severity = "serious")
            \/ (name = "MINOR" /\ i.severity = "minor")))

CountSeverity(list, name) ==
    Len(SelectSeq(list, LAMBDA i : i.severity = name))

(***************************************************************************)
(* generate_report, line 113: the sort key and sorted(), a stable sort.     *)
(***************************************************************************)
SeverityRank(severity) ==
    CASE severity = "CRITICAL" -> 0
      [] severity = "SERIOUS" -> 1
      [] severity = "MINOR" -> 2
      [] OTHER -> 3

\* a faulty variant (sensitivity of C6): an unstable sort, equal keys swap
RECURSIVE InsertBeforeEqualRank(_, _)
InsertBeforeEqualRank(sorted, x) ==
    IF sorted = <<>> THEN <<x>>
    ELSE IF SeverityRank(x.severity) <= SeverityRank(Head(sorted).severity)
         THEN <<x>> \o sorted
         ELSE <<Head(sorted)>> \o InsertBeforeEqualRank(Tail(sorted), x)

RECURSIVE InsertByRank(_, _)
InsertByRank(sorted, x) ==
    IF sorted = <<>> THEN <<x>>
    ELSE IF SeverityRank(x.severity) < SeverityRank(Head(sorted).severity)
         THEN <<x>> \o sorted
         ELSE <<Head(sorted)>> \o InsertByRank(Tail(sorted), x)

RECURSIVE SortedBySeverity(_)
SortedBySeverity(list) ==
    IF list = <<>> THEN <<>>
    ELSE InsertByRank(SortedBySeverity(SubSeq(list, 1, Len(list) - 1)), list[Len(list)])

\* line 114: one table row per issue of the sorted list
IssueRow(i) ==
    [line |-> "issue_row", page |-> i.page, component |-> i.component, issue |-> i.issue,
     severity |-> i.severity, current_colors |-> i.current_colors,
     expected_colors |-> i.expected_colors]

\* a faulty variant (sensitivity of C2): issues of an unknown severity get no row
IssueRowsOfKnownSeverity(list) ==
    LET sorted == SelectSeq(SortedBySeverity(list), LAMBDA i : SeverityRank(i.severity) < 3)
    IN  [k \in 1..Len(sorted) |-> IssueRow(sorted[k])]

IssueRows(list) ==
    LET sorted == SortedBySeverity(list)
    IN  [k \in 1..Len(sorted) |-> IssueRow(sorted[k])]

(***************************************************************************)
(* Python's order of str: by code point, a proper prefix first.             *)
(***************************************************************************)
CodePoints(s) ==
    CASE s = "Tasks" -> <<84, 97, 115, 107, 115>>
      [] s = "Today" -> <<84, 111, 100, 97, 121>>
      [] s = "Dashboard" -> <<68, 97, 115, 104, 98, 111, 97, 114, 100>>
      [] s = "Modals" -> <<77, 111, 100, 97, 108, 115>>

RECURSIVE SeqLess(_, _)
SeqLess(a, b) ==
    IF b = <<>> THEN FALSE
    ELSE IF a = <<>> THEN TRUE
    ELSE IF Head(a) # Head(b) THEN Head(a) < Head(b)
    ELSE SeqLess(Tail(a), Tail(b))

StrLess(a, b) == SeqLess(CodePoints(a), CodePoints(b))

(***************************************************************************)
(* generate_report, lines 121-131: the screenshots grouped by page.         *)
(***************************************************************************)
\* the keys of `pages`, in insertion order: each page at its first screenshot
RECURSIVE PageKeys(_)
PageKeys(list) ==
    IF list = <<>> THEN <<>>
    ELSE LET before == PageKeys(SubSeq(list, 1, Len(list) - 1))
             page == list[Len(list)].page
         IN  IF \E k \in 1..Len(before) : before[k] = page
             THEN before
             ELSE Append(before, page)

\* pages[page]
PageGroup(list, page) == SelectSeq(list, LAMBDA ss : ss.page = page)

RECURSIVE InsertStr(_, _)
InsertStr(sorted, x) ==
    IF sorted = <<>> THEN <<x>>
    ELSE IF StrLess(x, Head(sorted))
         THEN <<x>> \o sorted
         ELSE <<Head(sorted)>> \o InsertStr(Tail(sorted), x)

RECURSIVE SortedStr(_)
SortedStr(keys) ==
    IF keys = <<>> THEN <<>>
    ELSE InsertStr(SortedStr(SubSeq(keys, 1, Len(keys) - 1)), keys[Len(keys)])

\* a faulty variant (sensitivity of C7): the groups are rendered in insertion order
PageOrderAsLogged(list) == PageKeys(list)

\* line 128: the order in which the page groups are rendered
PageOrder(list) == SortedStr(PageKeys(list))

ScreenshotLine(ss) ==
    [line |-> "screenshot", component |-> ss.component, filename |-> ss.filename]

PageSection(list, page) ==
    LET group == PageGroup(list, page)
    IN  <<[line |-> "page_heading", page |-> page]>>
        \o [k \in 1..Len(group) |-> ScreenshotLine(group[k])]

RECURSIVE PageSections(_, _)
PageSections(list, order) ==
    IF order = <<>> THEN <<>>
    ELSE PageSection(list, Head(order)) \o PageSections(list, Tail(order))

ByPageLines(list) == PageSections(list, PageOrder(list))

(***************************************************************************)
(* generate_report, lines 133-145: the design system reference.             *)
(***************************************************************************)
DesignSystemLines ==
    <<[line |-> "design_system_heading"], [line |-> "text_colors_heading"]>>
    \o [k \in 1..Len(TextKeys) |->
            [line |-> "text_color", color |-> TextKeys[k],
             value |-> DESIGN_SYSTEM.text[TextKeys[k]].value,
             contrast |-> DESIGN_SYSTEM.text[TextKeys[k]].contrast,
             min_required |-> DESIGN_SYSTEM.text[TextKeys[k]].min_required]]
    \o <<[line |-> "backgrounds_heading"]>>
    \o [k \in 1..Len(BackgroundKeys) |->
            [line |-> "background", bg_type |-> BackgroundKeys[k],
             value |-> DESIGN_SYSTEM.backgrounds[BackgroundKeys[k]]]]
    \o <<[line |-> "accents_heading"]>>
    \o [k \in 1..Len(AccentKeys) |->
            [line |-> "accent", color |-> AccentKeys[k],
             value |-> DESIGN_SYSTEM.accents[AccentKeys[k]]]]

(***************************************************************************)
(* generate_report: the list `report` for a session with the given fields,  *)
(* t1 and t2 being the clock at the two reads of datetime.now().            *)
(***************************************************************************)
Report(iss, shots, tested, started, t1, t2) ==
    <<[line |-> "title"],
      [line |-> "date", text |-> TIMESTAMP],
      [line |-> "session", text |-> SESSION],
      [line |-> "total_issues", n |-> Len(iss)],
      [line |-> "pages_tested", n |-> tested],
      [line |-> "duration", n |-> t1 - started],
      [line |-> "summary_heading"],
      [line |-> "severity_count", severity |-> "CRITICAL", n |-> CountSeverity(iss, "CRITICAL")],
      [line |-> "severity_count", severity |-> "SERIOUS", n |-> CountSeverity(iss, "SERIOUS")],
      [line |-> "severity_count", severity |-> "MINOR", n |-> CountSeverity(iss, "MINOR")],
      [line |-> "all_issues_heading"],
      [line |-> "table_header"],
      [line |-> "table_rule"]>>
    \o IssueRows(iss)
    \o <<[line |-> "screenshots_heading"],
         [line |-> "screenshots_total", n |-> Len(shots)],
         [line |-> "by_page_heading"]>>
    \o ByPageLines(shots)
    \o DesignSystemLines
    \o <<[line |-> "test_configuration_heading"],
         [line |-> "account", text |-> "claude-test-admin@mybrain.test"],
         [line |-> "session_option", text |-> SESSION],
         [line |-> "pages", n |-> tested, of |-> Len(PAGES_TO_TEST)],
         [line |-> "report_time", n |-> t2]>>

(***************************************************************************)
(* The values a method call returns.                                        *)
(***************************************************************************)
None == [type |-> "None"]
Str(lines) == [type |-> "str", report |-> lines]

(***************************************************************************)
(* Main's side of the state while only a session is exercised.              *)
(***************************************************************************)
EmptyFs == [dirs |-> {}, files |-> {}]

MainIdle ==
    /\ pc = "idle"
    /\ fs = EmptyFs
    /\ stdout = <<>>
    /\ raised = "none"
    /\ fault = "none"
    /\ syscalls = <<>>
    /\ runs = 0
    /\ fsAtStart = EmptyFs
    /\ fsAfterFirst = EmptyFs

(***************************************************************************)
(* A session right after construction.                                      *)
(***************************************************************************)
Init ==
    /\ now = 0
    /\ test = "session"
    /\ issues = <<>>
    /\ screenshots = <<>>
    /\ pages_tested = 0
    /\ start_time = now
    /\ ret = None
    /\ issueCalls = <<>>
    /\ shotCalls = <<>>
    /\ MainIdle

\* time passes between two calls
Tick ==
    /\ now < MaxClock
    /\ now' = now + 1
    /\ UNCHANGED <<sessionVars, ret, issueCalls, shotCalls, mainVars>>

log_issue ==
    /\ test = "session"
    /\ Len(issues) + Len(screenshots) < MaxRecords
    /\ \E a \in IssueInputs :
          /\ issues' = AppendIssue(issues, a.page, a.component, a.issue, a.severity,
                                   a.current_colors, a.expected_colors, now)
          /\ issueCalls' = Append(issueCalls, a)
    /\ ret' = None
    /\ UNCHANGED <<test, screenshots, pages_tested, start_time, now, shotCalls, mainVars>>

\* a faulty variant (sensitivity of C9): a screenshot counts its page as tested
log_screenshot_counting_page ==
    /\ test = "session"
    /\ Len(issues) + Len(screenshots) < MaxRecords
    /\ \E a \in ShotInputs :
          /\ screenshots' = AppendScreenshot(screenshots, a.page, a.component, a.filename, now)
          /\ shotCalls' = Append(shotCalls, a)
    /\ pages_tested' = pages_tested + 1
    /\ ret' = None
    /\ UNCHANGED <<test, issues, start_time, now, issueCalls, mainVars>>

log_screenshot ==
    /\ test = "session"
    /\ Len(issues) + Len(screenshots) < MaxRecords
    /\ \E a \in ShotInputs :
          /\ screenshots' = AppendScreenshot(screenshots, a.page, a.component, a.filename, now)
          /\ shotCalls' = Append(shotCalls, a)
    /\ ret' = None
    /\ UNCHANGED <<test, issues, pages_tested, start_time, now, issueCalls, mainVars>>

\* a faulty variant (sensitivity of C10): self.issues.sort(...) in place of sorted(...)
generate_report_sorting_in_place ==
    /\ test = "session"
    /\ \E t2 \in {t \in {now, now + 1} : t <= MaxClock} :
          /\ ret' = Str(Report(issues, screenshots, pages_tested, start_time, now, t2))
          /\ now' = t2
    /\ issues' = SortedBySeverity(issues)
    /\ UNCHANGED <<test, screenshots, pages_tested, start_time, issueCalls, shotCalls, mainVars>>

\* the clock may advance between the two reads of datetime.now() (lines 96 and 151)
generate_report ==
    /\ test = "session"
    /\ \E t2 \in {t \in {now, now + 1} : t <= MaxClock} :
          /\ ret' = Str(Report(issues, screenshots, pages_tested, start_time, now, t2))
          /\ now' = t2
    /\ UNCHANGED <<sessionVars, issueCalls, shotCalls, mainVars>>

Next == Tick \/ log_issue \/ log_screenshot \/ generate_report

Spec == Init /\ [][Next]_vars

(***************************************************************************)
(* The file system.  A path is the sequence of its components below the     *)
(* working directory; <<>> is the working directory itself.                 *)
(***************************************************************************)
CONFIG_FILE == REPORT_DIR \o <<"darkmode-qa-config-2026-01-31.json">>

Parent(path) == SubSeq(path, 1, Len(path) - 1)
Ancestors(path) == {SubSeq(path, 1, k) : k \in 1..Len(path)}
TreeDirs == Ancestors(REPORT_DIR) \cup Ancestors(SCREENSHOT_DIR)

IsDir(f, path) == path = <<>> \/ path \in f.dirs
IsFile(f, path) == \E e \in f.files : e.path = path

\* Path.mkdir(parents=..., exist_ok=...): the file system it leaves and the error it raises
RECURSIVE Mkdir(_, _, _, _)
Mkdir(f, path, parents, exist_ok) ==
    IF IsDir(f, path)
    THEN [fs |-> f, err |-> IF exist_ok THEN "none" ELSE "FileExistsError"]
    ELSE IF IsFile(f, path)
    THEN [fs |-> f, err |-> "FileExistsError"]
    ELSE IF IsDir(f, Parent(path))
    THEN [fs |-> [f EXCEPT !.dirs = @ \cup {path}], err |-> "none"]
    ELSE IF IsFile(f, Parent(path))
    THEN [fs |-> f, err |-> "NotADirectoryError"]
    ELSE IF ~parents
    THEN [fs |-> f, err |-> "FileNotFoundError"]
    ELSE LET r == Mkdir(f, Parent(path), TRUE, TRUE)
         IN  IF r.err # "none" THEN r ELSE Mkdir(r.fs, path, FALSE, exist_ok)

\* a faulty variant (sensitivity of C5): exist_ok left at its default
MkdirTreeNotExistOk(f, path) == Mkdir(f, path, TRUE, FALSE)

\* lines 166-167: X.mkdir(parents=True, exist_ok=True)
MkdirTree(f, path) == Mkdir(f, path, TRUE, TRUE)

\* open(path, 'w'): creates the file or truncates it
OpenForWrite(f, path) ==
    IF IsDir(f, path)
    THEN [fs |-> f, err |-> "IsADirectoryError"]
    ELSE IF ~IsDir(f, Parent(path))
    THEN [fs |-> f, err |-> "FileNotFoundError"]
    ELSE [fs |-> [f EXCEPT !.files = {e \in @ : e.path # path}
                                      \cup {[path |-> path, content |-> [text |-> ""]]}],
          err |-> "none"]

WriteFile(f, path, content) ==
    [f EXCEPT !.files = {e \in @ : e.path # path} \cup {[path |-> path, content |-> content]}]

\* str(path), POSIX flavour
RECURSIVE PathStr(_)
PathStr(path) ==
    IF Len(path) = 1 THEN path[1]
    ELSE PathStr(Parent(path)) \o "/" \o path[Len(path)]

\* lines 214-221
Config ==
    [timestamp |-> TIMESTAMP,
     session |-> SESSION,
     pages |-> PAGES_TO_TEST,
     design_system |-> DESIGN_SYSTEM,
     report_dir |-> PathStr(REPORT_DIR),
     screenshot_dir |-> PathStr(SCREENSHOT_DIR)]

\* json.dump(value, f): the document the file then holds
JsonDump(value) == [json |-> value]

(***************************************************************************)
(* The states main may be started in: any part of the directory tree may    *)
(* exist already, a regular file may sit where a directory is wanted, an    *)
(* older configuration file may be there, and one system call of the run    *)
(* may fail for a reason of the environment's (permissions, a full disk).   *)
(***************************************************************************)
Faults == {"none", "mkdir_screenshot", "mkdir_report", "open", "write"}

OldFiles ==
    { [path |-> CONFIG_FILE, content |-> [text |-> "stale"]],
      [path |-> SCREENSHOT_DIR, content |-> [text |-> "not a directory"]],
      [path |-> REPORT_DIR, content |-> [text |-> "not a directory"]] }

StartFs ==
    { f \in [dirs : SUBSET TreeDirs, files : SUBSET OldFiles] :
        /\ \A d \in f.dirs : IsDir(f, Parent(d))
        /\ \A e \in f.files : IsDir(f, Parent(e.path)) /\ ~IsDir(f, e.path) }

NoFs == [type |-> "None"]

InitMain ==
    /\ now \in 0..MaxClock
    /\ test = "unbound"
    /\ issues = NoValue
    /\ screenshots = NoValue
    /\ pages_tested = NoValue
    /\ start_time = NoValue
    /\ ret = None
    /\ issueCalls = <<>>
    /\ shotCalls = <<>>
    /\ pc = "start"
    /\ fs \in StartFs
    /\ stdout = <<>>
    /\ raised = "none"
    /\ fault \in Faults
    /\ syscalls = <<>>
    /\ runs = 1
    /\ fsAtStart = fs
    /\ fsAfterFirst = NoFs

sessionIdle == UNCHANGED <<sessionVars, now, ret, issueCalls, shotCalls>>

\* lines 157-163
MainPrintBanner ==
    /\ pc = "start"
    /\ stdout' = stdout \o <<"rule", "title", "rule", "timestamp", "session",
                             "pages_to_test", "blank">>
    /\ pc' = "mkdir_screenshot"
    /\ UNCHANGED <<fs, raised, fault, syscalls, runs, fsAtStart, fsAfterFirst>>
    /\ sessionIdle

\* a mkdir statement of main: the call, then on to `next` or out with the error
MkdirStep(here, path, next) ==
    /\ pc = here
    /\ syscalls' = Append(syscalls, [call |-> "mkdir", path |-> path])
    /\ LET r == IF fault = here
                THEN [fs |-> fs, err |-> "PermissionError"]
                ELSE MkdirTree(fs, path)
       IN  /\ fs' = r.fs
           /\ raised' = r.err
           /\ pc' = IF r.err = "none" THEN next ELSE "raised"
    /\ UNCHANGED <<stdout, fault, runs, fsAtStart, fsAfterFirst>>
    /\ sessionIdle

\* a faulty variant (sensitivity of C4): the report directory is made twice
MainMkdirReportFirst == MkdirStep("mkdir_screenshot", REPORT_DIR, "mkdir_report")

\* line 166
MainMkdirScreenshot == MkdirStep("mkdir_screenshot", SCREENSHOT_DIR, "mkdir_report")

\* line 167
MainMkdirReport == MkdirStep("mkdir_report", REPORT_DIR, "init_test")

\* a faulty variant (sensitivity of C3): main logs a screenshot of its own
MainInitTestAndLog ==
    /\ pc = "init_test"
    /\ test' = "session"
    /\ issues' = <<>>
    /\ screenshots' = AppendScreenshot(<<>>, "Dashboard", "card", "dashboard-card.png", now)
    /\ pages_tested' = 0
    /\ start_time' = now
    /\ shotCalls' = <<>>
    /\ pc' = "print_instructions"
    /\ UNCHANGED <<now, ret, issueCalls>>
    /\ UNCHANGED <<fs, stdout, raised, fault, syscalls, runs, fsAtStart, fsAfterFirst>>

\* line 170
MainInitTest ==
    /\ pc = "init_test"
    /\ SessionInit
    /\ pc' = "print_instructions"
    /\ UNCHANGED <<now, ret, issueCalls, shotCalls>>
    /\ UNCHANGED <<fs, stdout, raised, fault, syscalls, runs, fsAtStart, fsAfterFirst>>

\* lines 173-210
MainPrintInstructions ==
    /\ pc = "print_instructions"
    /\ stdout' = Append(stdout, "instructions")
    /\ pc' = "open_config"
    /\ UNCHANGED <<fs, raised, fault, syscalls, runs, fsAtStart, fsAfterFirst>>
    /\ sessionIdle

\* line 223
MainOpenConfig ==
    /\ pc = "open_config"
    /\ syscalls' = Append(syscalls, [call |-> "open", path |-> CONFIG_FILE])
    /\ LET r == IF fault = "open"
                THEN [fs |-> fs, err |-> "PermissionError"]
                ELSE OpenForWrite(fs, CONFIG_FILE)
       IN  /\ fs' = r.fs
           /\ raised' = r.err
           /\ pc' = IF r.err = "none" THEN "dump_config" ELSE "raised"
    /\ UNCHANGED <<stdout, fault, runs, fsAtStart, fsAfterFirst>>
    /\ sessionIdle

\* line 224, and the close of the with block
MainDumpConfig ==
    /\ pc = "dump_config"
    /\ syscalls' = Append(syscalls, [call |-> "write", path |-> CONFIG_FILE])
    /\ IF fault = "write"
       THEN /\ fs' = fs
            /\ raised' = "OSError"
            /\ pc' = "raised"
       ELSE /\ fs' = WriteFile(fs, CONFIG_FILE, JsonDump(Config))
            /\ raised' = "none"
            /\ pc' = "print_saved"
    /\ UNCHANGED <<stdout, fault, runs, fsAtStart, fsAfterFirst>>
    /\ sessionIdle

\* lines 226-228
MainPrintSaved ==
    /\ pc = "print_saved"
    /\ stdout' = stdout \o <<"configuration_saved", "ready", "rule">>
    /\ pc' = "done"
    /\ fsAfterFirst' = IF runs = 1 THEN [type |-> "fs", fs |-> fs] ELSE fsAfterFirst
    /\ UNCHANGED <<fs, raised, fault, syscalls, runs, fsAtStart>>
    /\ sessionIdle

\* the script is started again: a new process on the file system the last one left
MainAgain ==
    /\ pc \in {"done", "raised"}
    /\ runs < MaxRuns
    /\ runs' = runs + 1
    /\ pc' = "start"
    /\ stdout' = <<>>
    /\ raised' = "none"
    /\ fault' \in Faults
    /\ syscalls' = <<>>
    /\ fsAtStart' = fs
    /\ test' = "unbound"
    /\ issues' = NoValue
    /\ screenshots' = NoValue
    /\ pages_tested' = NoValue
    /\ start_time' = NoValue
    /\ UNCHANGED <<fs, fsAfterFirst, now, ret, issueCalls, shotCalls>>

NextMain ==
    \/ MainPrintBanner
    \/ MainMkdirScreenshot
    \/ MainMkdirReport
    \/ MainInitTest
    \/ MainPrintInstructions
    \/ MainOpenConfig
    \/ MainDumpConfig
    \/ MainPrintSaved
    \/ MainAgain

SpecMain == InitMain /\ [][NextMain]_vars

(***************************************************************************)
(* Reading a report back: the lines of one template, the number a line      *)
(* states, the part between two headings.                                   *)
(***************************************************************************)
Range(seq) == {seq[k] : k \in DOMAIN seq}
LinesOf(rep, template) == SelectSeq(rep, LAMBDA l : l.line = template)
IndexOf(rep, template) == CHOOSE k \in DOMAIN rep : rep[k].line = template
TableRows(rep) == LinesOf(rep, "issue_row")
Multiset(seq) == [x \in Range(seq) |-> Cardinality({k \in DOMAIN seq : seq[k] = x})]
Reported == ret.type = "str"

\* what the claims expect a record to look like in the report
RowFor(i) ==
    [line |-> "issue_row", page |-> i.page, component |-> i.component, issue |-> i.issue,
     severity |-> i.severity, current_colors |-> i.current_colors,
     expected_colors |-> i.expected_colors]
RowsFor(list) == [k \in DOMAIN list |-> RowFor(list[k])]
BulletFor(ss) == [line |-> "screenshot", component |-> ss.component, filename |-> ss.filename]
BulletsFor(list) == [k \in DOMAIN list |-> BulletFor(list[k])]
KnownSeverities == {"CRITICAL", "SERIOUS", "MINOR"}
RankInClaim(severity) ==
    IF severity = "CRITICAL" THEN 0
    ELSE IF severity = "SERIOUS" THEN 1
    ELSE IF severity = "MINOR" THEN 2
    ELSE 3
ByPagePart(rep) ==
    SubSeq(rep, IndexOf(rep, "by_page_heading") + 1, IndexOf(rep, "design_system_heading") - 1)
HeadingAt(part) == {k \in DOMAIN part : part[k].line = "page_heading"}
\* the lines from a heading up to the next heading (or the end of the part)
Under(part, k) ==
    LET stops == {j \in (k + 1)..(Len(part) + 1) : j = Len(part) + 1 \/ j \in HeadingAt(part)}
        stop == CHOOSE j \in stops : \A i \in stops : j <= i
    IN  SubSeq(part, k + 1, stop - 1)

(***************************************************************************)
(* C1: issues is exactly the sequence of the log_issue calls in call order, *)
(* each record carrying the six values passed, and screenshots is exactly   *)
(* the sequence of the log_screenshot calls in call order; both start       *)
(* empty, every call appends one record, and no call (generate_report       *)
(* included) removes, reorders or changes a record or touches the other     *)
(* list.                                                                    *)
(***************************************************************************)
C1_LogsAreTheCallsInOrder ==
    /\ Len(issues) = Len(issueCalls)
    /\ \A k \in DOMAIN issues :
          /\ issues[k].page = issueCalls[k].page
          /\ issues[k].component = issueCalls[k].component
          /\ issues[k].issue = issueCalls[k].issue
          /\ issues[k].severity = issueCalls[k].severity
          /\ issues[k].current_colors = issueCalls[k].current_colors
          /\ issues[k].expected_colors = issueCalls[k].expected_colors
    /\ Len(screenshots) = Len(shotCalls)
    /\ \A k \in DOMAIN screenshots :
          /\ screenshots[k].page = shotCalls[k].page
          /\ screenshots[k].component = shotCalls[k].component
          /\ screenshots[k].filename = shotCalls[k].filename

C1_Witness ==
    /\ Len(issues) = 2
    /\ issues[1].severity # issues[2].severity
    /\ Len(screenshots) = 1
    /\ Reported

(***************************************************************************)
(* C2: the report states the number of issue records and the number of      *)
(* screenshot records, its table rows are a permutation of the issue log    *)
(* (issues of an unknown severity included), and it has one bullet per      *)
(* screenshot record.                                                       *)
(***************************************************************************)
C2_ReportAggregatesEveryRecord ==
    Reported =>
        LET rep == ret.report
        IN  /\ LinesOf(rep, "total_issues") = <<[line |-> "total_issues", n |-> Len(issues)]>>
            /\ LinesOf(rep, "screenshots_total")
                   = <<[line |-> "screenshots_total", n |-> Len(screenshots)]>>
            /\ Len(TableRows(rep)) = Len(issues)
            /\ Multiset(TableRows(rep)) = Multiset(RowsFor(issues))
            /\ Len(LinesOf(rep, "screenshot")) = Len(screenshots)
            /\ Multiset(LinesOf(rep, "screenshot")) = Multiset(BulletsFor(screenshots))

C2_Witness ==
    /\ Reported
    /\ Len(issues) = 2
    /\ \E k \in DOMAIN issues : issues[k].severity \notin KnownSeverities
    /\ Len(screenshots) = 1
    /\ Len(TableRows(ret.report)) = 2

(***************************************************************************)
(* C6: the table rows are in ascending severity rank (CRITICAL 0, SERIOUS   *)
(* 1, MINOR 2, anything else 3), and issues of equal rank keep the order    *)
(* in which they were logged.                                               *)
(***************************************************************************)
C6_RowsSortedBySeverityStably ==
    Reported =>
        LET rows == TableRows(ret.report)
        IN  /\ \A j, k \in DOMAIN rows :
                  j < k => RankInClaim(rows[j].severity) <= RankInClaim(rows[k].severity)
            /\ \A r \in 0..3 :
                  SelectSeq(rows, LAMBDA l : RankInClaim(l.severity) = r)
                      = SelectSeq(RowsFor(issues), LAMBDA l : RankInClaim(l.severity) = r)

C6_Witness ==
    /\ Reported
    /\ Len(issues) = 3
    /\ issues[1].severity = "INFO"
    /\ issues[2].severity = "critical"
    /\ issues[3].severity = "CRITICAL"
    /\ TableRows(ret.report) = RowsFor(<<issues[3], issues[1], issues[2]>>)

(***************************************************************************)
(* C7: the screenshots are grouped by page: one heading per distinct page   *)
(* of the screenshot log and no other, headings in ascending order of the   *)
(* page name, and under each heading exactly the screenshots of that page,  *)
(* in the order they were logged.                                           *)
(***************************************************************************)
C7_ScreenshotsGroupedByPage ==
    Reported =>
        LET part == ByPagePart(ret.report)
            heads == HeadingAt(part)
        IN  /\ {part[k].page : k \in heads} = {ss.page : ss \in Range(screenshots)}
            /\ \A j, k \in heads : j < k => StrLess(part[j].page, part[k].page)
            /\ part # <<>> => 1 \in heads
            /\ \A k \in DOMAIN part : part[k].line \in {"page_heading", "screenshot"}
            /\ \A k \in heads :
                  Under(part, k)
                      = BulletsFor(SelectSeq(screenshots, LAMBDA ss : ss.page = part[k].page))

C7_Witness ==
    /\ Reported
    /\ Len(screenshots) = 3
    /\ screenshots[1].page = "Tasks"
    /\ screenshots[2].page = "Dashboard"
    /\ screenshots[3].page = "Tasks"
    /\ screenshots[1].component # screenshots[3].component
    /\ Len(ByPagePart(ret.report)) = 5

(***************************************************************************)
(* C8: each of the three severity counts is the number of issues whose      *)
(* severity is exactly that string; their sum is at most the total and      *)
(* equals it exactly when every issue has one of the three severities; an   *)
(* issue of another severity is logged, counted in the total and shown in   *)
(* the table.                                                               *)
(***************************************************************************)
C8_SeverityCountsAreExactMatches ==
    Reported =>
        LET rep == ret.report
            counts == LinesOf(rep, "severity_count")
            total == LinesOf(rep, "total_issues")[1].n
            exact(name) == Cardinality({k \in DOMAIN issues : issues[k].severity = name})
        IN  /\ counts = <<[line |-> "severity_count", severity |-> "CRITICAL", n |-> exact("CRITICAL")],
                          [line |-> "severity_count", severity |-> "SERIOUS", n |-> exact("SERIOUS")],
                          [line |-> "severity_count", severity |-> "MINOR", n |-> exact("MINOR")]>>
            /\ counts[1].n + counts[2].n + counts[3].n <= total
            /\ (counts[1].n + counts[2].n + counts[3].n = total)
                   <=> (\A k \in DOMAIN issues : issues[k].severity \in KnownSeverities)
            /\ total = Len(issues)
            /\ \A k \in DOMAIN issues : RowFor(issues[k]) \in Range(TableRows(rep))

C8_Witness ==
    /\ Reported
    /\ Len(issues) = 2
    /\ issues[1].severity = "CRITICAL"
    /\ issues[2].severity = "critical"
    /\ LinesOf(ret.report, "total_issues")[1].n = 2
    /\ LinesOf(ret.report, "severity_count")[1].n = 1

(***************************************************************************)
(* C9: pages_tested is 0 after construction and after every operation,      *)
(* whatever pages have records, so every report states 0 pages tested and   *)
(* 0 of 9 pages.                                                            *)
(***************************************************************************)
C9_PagesTestedStaysZero ==
    /\ pages_tested = 0
    /\ Reported =>
          /\ LinesOf(ret.report, "pages_tested") = <<[line |-> "pages_tested", n |-> 0]>>
          /\ LinesOf(ret.report, "pages") = <<[line |-> "pages", n |-> 0, of |-> 9]>>

C9_Witness ==
    /\ Reported
    /\ Cardinality({ss.page : ss \in Range(screenshots)} \cup {i.page : i \in Range(issues)}) = 3

(***************************************************************************)
(* C10: a call of generate_report returns a report, changes none of         *)
(* issues, screenshots, pages_tested and start_time (the stored issue log   *)
(* is not reordered by the sort), and called again with no logging in       *)
(* between returns the same report but for the Duration and Report Time     *)
(* lines.                                                                   *)
(***************************************************************************)
WithoutTimes(rep) == SelectSeq(rep, LAMBDA l : l.line \notin {"duration", "report_time"})

C10_GenerateReportIsReadOnly ==
    [][generate_report =>
            /\ UNCHANGED <<issues, screenshots, pages_tested, start_time>>
            /\ ret'.type = "str"
            /\ Reported => WithoutTimes(ret'.report) = WithoutTimes(ret.report)]_vars

C10_Witness ==
    /\ Reported
    /\ Len(issues) = 2
    /\ TableRows(ret.report) # RowsFor(issues)
    /\ LinesOf(ret.report, "duration")[1].n = 1
    /\ LinesOf(ret.report, "report_time")[1].n = 1

(***************************************************************************)
(* Reading main's run back.                                                 *)
(***************************************************************************)
IsPrefix(a, b) == Len(a) <= Len(b) /\ a = SubSeq(b, 1, Len(a))
PrintedByMain ==
    <<"rule", "title", "rule", "timestamp", "session", "pages_to_test", "blank",
      "instructions", "configuration_saved", "ready", "rule">>
ContentAt(f, path) == (CHOOSE e \in f.files : e.path = path).content
Called(name) == \E k \in DOMAIN syscalls : syscalls[k].call = name

(***************************************************************************)
(* C3: a run of main builds a fresh session and never calls log_issue,      *)
(* log_screenshot or generate_report: whenever the session exists its logs  *)
(* are empty and pages_tested is 0, no report is ever returned, what main   *)
(* prints is its banner and instructions, and the one file it writes is the *)
(* configuration file.                                                      *)
(***************************************************************************)
C3_MainNeverFeedsTheSession ==
    /\ issueCalls = <<>>
    /\ shotCalls = <<>>
    /\ ret = None
    /\ test = "session" => issues = <<>> /\ screenshots = <<>> /\ pages_tested = 0
    /\ pc \in {"print_instructions", "open_config", "dump_config", "print_saved", "done"}
          => test = "session"
    /\ IsPrefix(stdout, PrintedByMain)
    /\ \A e \in fs.files : e \in fsAtStart.files \/ e.path = CONFIG_FILE
    /\ \A k \in DOMAIN syscalls :
          syscalls[k].call \in {"open", "write"} => syscalls[k].path = CONFIG_FILE

C3_Witness ==
    /\ pc = "done"
    /\ test = "session"
    /\ stdout = PrintedByMain
    /\ IsFile(fs, CONFIG_FILE)
    /\ ~IsFile(fsAtStart, CONFIG_FILE)

(***************************************************************************)
(* C4: when main opens the configuration file it has called mkdir on the    *)
(* screenshot directory and then on the report directory, and both exist;   *)
(* the document it then writes to REPORT_DIR/darkmode-qa-config-2026-01-31  *)
(* .json has exactly the keys timestamp, session, pages, design_system,     *)
(* report_dir and screenshot_dir with the module constants as values (9     *)
(* pages) and so holds no issue or screenshot record.                       *)
(***************************************************************************)
C4_DirectoriesBeforeConfigAndItsKeys ==
    /\ Called("open") =>
          /\ Len(syscalls) >= 3
          /\ syscalls[1] = [call |-> "mkdir", path |-> SCREENSHOT_DIR]
          /\ syscalls[2] = [call |-> "mkdir", path |-> REPORT_DIR]
          /\ syscalls[3] = [call |-> "open", path |-> CONFIG_FILE]
          /\ SCREENSHOT_DIR \in fs.dirs
          /\ REPORT_DIR \in fs.dirs
    /\ pc = "mkdir_report" => SCREENSHOT_DIR \in fs.dirs
    /\ pc \in {"print_saved", "done"} =>
          LET doc == ContentAt(fs, CONFIG_FILE)
          IN  /\ DOMAIN doc = {"json"}
              /\ DOMAIN doc.json = {"timestamp", "session", "pages", "design_system",
                                    "report_dir", "screenshot_dir"}
              /\ doc.json.timestamp = TIMESTAMP
              /\ doc.json.session = SESSION
              /\ doc.json.pages = PAGES_TO_TEST
              /\ Len(doc.json.pages) = 9
              /\ doc.json.design_system = DESIGN_SYSTEM
              /\ doc.json.report_dir = "C:/Users/NewAdmin/Desktop/PROJECTS/myBrain/.claude/reports"
              /\ doc.json.screenshot_dir
                     = "C:/Users/NewAdmin/Desktop/PROJECTS/myBrain/.claude/design/screenshots/qa/darkmode"

C4_Witness ==
    /\ pc = "done"
    /\ fsAtStart.dirs = {}
    /\ SCREENSHOT_DIR \in fs.dirs
    /\ REPORT_DIR \in fs.dirs
    /\ IsFile(fs, CONFIG_FILE)

(***************************************************************************)
(* C5: directories that exist already never make main fail: a run ends in   *)
(* an error only if the environment fails a call or a regular file sits in  *)
(* the way; a run without such a failure completes and leaves both          *)
(* directories and the configuration document; a run that completes after   *)
(* a completed first run leaves the file system as the first did; and when  *)
(* a mkdir fails the error ends the run with no file opened or changed.     *)
(***************************************************************************)
InTheWay(f) == \E e \in f.files : e.path \in TreeDirs

C5_ExistingDirectoriesAreNoError ==
    /\ pc = "raised" => raised # "none" /\ (fault # "none" \/ InTheWay(fsAtStart))
    /\ (pc \in {"init_test", "print_instructions", "open_config"}
            /\ fault = "none" /\ ~InTheWay(fsAtStart))
          => TreeDirs \subseteq fs.dirs
    /\ pc = "done" =>
          /\ raised = "none"
          /\ TreeDirs \subseteq fs.dirs
          /\ fsAtStart.dirs \subseteq fs.dirs
          /\ ContentAt(fs, CONFIG_FILE) = [json |-> Config]
          /\ (runs >= 2 /\ fsAfterFirst.type = "fs") => fs = fsAfterFirst.fs
    /\ (pc = "raised" /\ syscalls[Len(syscalls)].call = "mkdir") =>
          /\ ~Called("open")
          /\ fs.files = fsAtStart.files

C5_Witness ==
    /\ runs = 2
    /\ pc = "done"
    /\ fsAfterFirst.type = "fs"
    /\ fsAtStart = fsAfterFirst.fs
    /\ fs = fsAtStart
    /\ TreeDirs \subseteq fsAtStart.dirs

====
